---- MODULE Spec2Model ----
(***************************************************************************)
(* Model of the pinocchio vault program: the Deposit and Withdraw          *)
(* instructions (src/src/instructions/deposit.rs, withdraw.rs).            *)
(*                                                                         *)
(* The ledger is a map from account keys to lamports.  A request is what   *)
(* the runtime hands an instruction: the account slice (each entry a key   *)
(* and its signer flag) and, for Deposit, the instruction data bytes.      *)
(* Each action runs one instruction from parsing to the transfer CPI.      *)
(***************************************************************************)
EXTENDS Integers, Sequences, FiniteSets, TLC

(***************************************************************************)
(* Bounds of the model.                                                    *)
(***************************************************************************)
\* lamports every owner holds in the initial ledger
InitBal == 2
\* the instruction data carry the amounts 0..MaxAmount, and 256
MaxAmount == 3

(***************************************************************************)
(* Keys, program ids, the ledger's fixed part.                             *)
(***************************************************************************)
Owners == {"O1", "O2"}
Vaults == {"V1", "V2"}
\* an account owned by some other program, holding lamports
Foreign == "X"
\* the system program's own account (the usual third account of a request)
SysAccount == "SYS"
Keys == Owners \cup Vaults \cup {Foreign, SysAccount}
NoKey == "none"

\* pinocchio_system::ID, the owner the handlers require of the vault
SYSTEM_ID == "SystemProgram"
OTHER_ID == "OtherProgram"
LOADER_ID == "NativeLoader"

\* AccountInfo::owner of every account.  A vault address has no private key
\* and this program never signs an Assign for it, so it stays system-owned.
ProgramOwner(k) ==
    IF k = Foreign THEN OTHER_ID
    ELSE IF k = SysAccount THEN LOADER_ID
    ELSE SYSTEM_ID

is_owned_by(k, program) == ProgramOwner(k) = program

(***************************************************************************)
(* ProgramError variants the handlers return, and "Ok".                    *)
(***************************************************************************)
OK == "Ok"
NotEnoughAccountKeys == "NotEnoughAccountKeys"
InvalidAccountOwner == "InvalidAccountOwner"
InvalidAccountData == "InvalidAccountData"
InvalidInstructionData == "InvalidInstructionData"
\* errors of the system program's Transfer
MissingRequiredSignature == "MissingRequiredSignature"
InsufficientFunds == "InsufficientFunds"
InvalidArgument == "InvalidArgument"

(***************************************************************************)
(* Program derived addresses.                                              *)
(* create_program_address hashes (seeds, program id) and fails when the    *)
(* hash is a point on the curve; find_program_address tries the bumps      *)
(* 255, 254, ... and returns the first that succeeds.  The table below is  *)
(* the hash restricted to the seeds the model uses: for O1 bump 255 is     *)
(* off the curve, for O2 bump 255 is on the curve and 254 is off it.       *)
(***************************************************************************)
VAULT_SEED == "vault"
MaxBump == 255
MinBump == 253
Bumps == MinBump..MaxBump

create_program_address(seeds) ==
    IF seeds = <<VAULT_SEED, "O1", 255>> THEN "V1"
    ELSE IF seeds = <<VAULT_SEED, "O2", 254>> THEN "V2"
    ELSE NoKey

RECURSIVE find_from(_, _)
find_from(seeds, bump) ==
    IF bump < MinBump THEN <<NoKey, 0>>
    ELSE LET a == create_program_address(Append(seeds, bump))
         IN IF a # NoKey THEN <<a, bump>> ELSE find_from(seeds, bump - 1)

find_program_address(seeds) == find_from(seeds, MaxBump)

(***************************************************************************)
(* The system program's Transfer, as the handlers use it.                  *)
(* signed: whether `from` signs, by the transaction or by a PDA proof.     *)
(* Returns the error and the ledger afterwards (unchanged on an error).    *)
(***************************************************************************)
Transfer(lam, from, to, amount, signed) ==
    IF ~signed THEN [err |-> MissingRequiredSignature, lamports |-> lam]
    ELSE IF ~is_owned_by(from, SYSTEM_ID) THEN [err |-> InvalidArgument, lamports |-> lam]
    ELSE IF lam[from] < amount THEN [err |-> InsufficientFunds, lamports |-> lam]
    ELSE IF from = to THEN [err |-> OK, lamports |-> lam]
    ELSE [err |-> OK,
          lamports |-> [lam EXCEPT ![from] = @ - amount, ![to] = @ + amount]]

\* Transfer::invoke: `from` signs only if the transaction marked it a signer
Transfer_invoke(lam, from, to, amount) ==
    Transfer(lam, from.key, to.key, amount, from.is_signer)

\* Transfer::invoke_signed: `from` also signs if the seeds derive its address
Transfer_invoke_signed(lam, from, to, amount, seeds) ==
    Transfer(lam, from.key, to.key, amount,
             from.is_signer \/ create_program_address(seeds) = from.key)

(***************************************************************************)
(* Deposit (deposit.rs).                                                   *)
(***************************************************************************)
NoAccount == [key |-> NoKey, is_signer |-> FALSE]

\* size_of::<u64>()
U64Size == 8
Byte == 256

\* u64::from_le_bytes: byte i (from 1) weighs 256^(i-1)
RECURSIVE u64_from_le_bytes(_)
u64_from_le_bytes(bytes) ==
    IF bytes = <<>> THEN 0
    ELSE Head(bytes) + Byte * u64_from_le_bytes(Tail(bytes))

\* variant: the vault-is-empty check (Check 3) left out
DepositAccounts_no_empty_check(accounts, lam) ==
    IF Len(accounts) # 3
    THEN [err |-> NotEnoughAccountKeys, owner |-> NoAccount, vault |-> NoAccount]
    ELSE LET owner == accounts[1]
             vault == accounts[2]
             vault_key == find_program_address(<<VAULT_SEED, owner.key>>)[1]
         IN IF ~owner.is_signer
            THEN [err |-> InvalidAccountOwner, owner |-> NoAccount, vault |-> NoAccount]
            ELSE IF ~is_owned_by(vault.key, SYSTEM_ID)
            THEN [err |-> InvalidAccountOwner, owner |-> NoAccount, vault |-> NoAccount]
            ELSE IF vault.key # vault_key
            THEN [err |-> InvalidAccountOwner, owner |-> NoAccount, vault |-> NoAccount]
            ELSE [err |-> OK, owner |-> owner, vault |-> vault]

\* variant: the PDA validation (Check 4) left out
DepositAccounts_no_pda_check(accounts, lam) ==
    IF Len(accounts) # 3
    THEN [err |-> NotEnoughAccountKeys, owner |-> NoAccount, vault |-> NoAccount]
    ELSE LET owner == accounts[1]
             vault == accounts[2]
         IN IF ~owner.is_signer
            THEN [err |-> InvalidAccountOwner, owner |-> NoAccount, vault |-> NoAccount]
            ELSE IF ~is_owned_by(vault.key, SYSTEM_ID)
            THEN [err |-> InvalidAccountOwner, owner |-> NoAccount, vault |-> NoAccount]
            ELSE IF lam[vault.key] # 0
            THEN [err |-> InvalidAccountData, owner |-> NoAccount, vault |-> NoAccount]
            ELSE [err |-> OK, owner |-> owner, vault |-> vault]

\* DepositAccounts::try_from: `let [owner, vault, _] = accounts` matches a
\* slice of exactly three accounts; then the four checks in source order.
DepositAccounts_try_from(accounts, lam) ==
    IF Len(accounts) # 3
    THEN [err |-> NotEnoughAccountKeys, owner |-> NoAccount, vault |-> NoAccount]
    ELSE LET owner == accounts[1]
             vault == accounts[2]
             vault_key == find_program_address(<<VAULT_SEED, owner.key>>)[1]
         IN IF ~owner.is_signer
            THEN [err |-> InvalidAccountOwner, owner |-> NoAccount, vault |-> NoAccount]
            ELSE IF ~is_owned_by(vault.key, SYSTEM_ID)
            THEN [err |-> InvalidAccountOwner, owner |-> NoAccount, vault |-> NoAccount]
            ELSE IF lam[vault.key] # 0
            THEN [err |-> InvalidAccountData, owner |-> NoAccount, vault |-> NoAccount]
            ELSE IF vault.key # vault_key
            THEN [err |-> InvalidAccountOwner, owner |-> NoAccount, vault |-> NoAccount]
            ELSE [err |-> OK, owner |-> owner, vault |-> vault]

\* variant: the amount > 0 check left out
DepositInstructionData_no_zero_check(data) ==
    IF Len(data) # U64Size
    THEN [err |-> InvalidInstructionData, amount |-> 0]
    ELSE [err |-> OK, amount |-> u64_from_le_bytes(data)]

\* variant: a minimum-length check, the first eight bytes decoded
DepositInstructionData_min_length(data) ==
    IF Len(data) < U64Size
    THEN [err |-> InvalidInstructionData, amount |-> 0]
    ELSE LET amount == u64_from_le_bytes(SubSeq(data, 1, U64Size))
         IN IF amount = 0
            THEN [err |-> InvalidInstructionData, amount |-> 0]
            ELSE [err |-> OK, amount |-> amount]

\* DepositInstructionData::try_from
DepositInstructionData_try_from(data) ==
    IF Len(data) # U64Size
    THEN [err |-> InvalidInstructionData, amount |-> 0]
    ELSE LET amount == u64_from_le_bytes(data)
         IN IF amount = 0
            THEN [err |-> InvalidInstructionData, amount |-> 0]
            ELSE [err |-> OK, amount |-> amount]

\* variant: the instruction data parsed before the accounts
Deposit_try_from_data_first(data, accounts, lam) ==
    LET d == DepositInstructionData_try_from(data)
    IN IF d.err # OK
       THEN [err |-> d.err, owner |-> NoAccount, vault |-> NoAccount, amount |-> 0]
       ELSE LET a == DepositAccounts_try_from(accounts, lam)
            IN IF a.err # OK
               THEN [err |-> a.err, owner |-> NoAccount, vault |-> NoAccount,
                     amount |-> 0]
               ELSE [err |-> OK, owner |-> a.owner, vault |-> a.vault,
                     amount |-> d.amount]

\* Deposit::try_from: the accounts first, then the instruction data
Deposit_try_from(data, accounts, lam) ==
    LET a == DepositAccounts_try_from(accounts, lam)
    IN IF a.err # OK
       THEN [err |-> a.err, owner |-> NoAccount, vault |-> NoAccount, amount |-> 0]
       ELSE LET d == DepositInstructionData_try_from(data)
            IN IF d.err # OK
               THEN [err |-> d.err, owner |-> NoAccount, vault |-> NoAccount,
                     amount |-> 0]
               ELSE [err |-> OK, owner |-> a.owner, vault |-> a.vault,
                     amount |-> d.amount]

\* variant: transfers the owner's whole balance, not the amount
Deposit_process_all(self, lam) ==
    Transfer_invoke(lam, self.owner, self.vault, lam[self.owner.key])

\* variant: the transfer's result is dropped and Ok(()) returned
Deposit_process_swallow(self, lam) ==
    [err |-> OK,
     lamports |-> Transfer_invoke(lam, self.owner, self.vault, self.amount).lamports]

\* Deposit::process: Transfer { from: owner, to: vault, lamports: amount }
Deposit_process(self, lam) ==
    Transfer_invoke(lam, self.owner, self.vault, self.amount)

\* variant: the transfer is made once the accounts are validated, before the
\* instruction data are checked (the amount read from the first eight bytes)
Deposit_run_early_transfer(data, accounts, lam) ==
    LET a == DepositAccounts_try_from(accounts, lam)
    IN IF a.err # OK THEN [err |-> a.err, lamports |-> lam]
       ELSE LET n == IF Len(data) < U64Size THEN Len(data) ELSE U64Size
                t == Transfer_invoke(lam, a.owner, a.vault,
                                     u64_from_le_bytes(SubSeq(data, 1, n)))
                d == DepositInstructionData_try_from(data)
            IN IF t.err # OK THEN t
               ELSE IF d.err # OK THEN [err |-> d.err, lamports |-> t.lamports]
               ELSE t

\* One Deposit instruction: Deposit::try_from((data, accounts))?.process().
\* The ledger returned is the ledger as the instruction left it.
Deposit_run(data, accounts, lam) ==
    LET self == Deposit_try_from(data, accounts, lam)
    IN IF self.err # OK THEN [err |-> self.err, lamports |-> lam]
       ELSE Deposit_process(self, lam)

(***************************************************************************)
(* Withdraw (withdraw.rs).                                                 *)
(***************************************************************************)
\* variant: the signer check (Check 1) left out
WithdrawAccounts_no_signer_check(accounts, lam) ==
    IF Len(accounts) # 3
    THEN [err |-> NotEnoughAccountKeys, owner |-> NoAccount, vault |-> NoAccount,
          bumps |-> <<0>>]
    ELSE LET owner == accounts[1]
             vault == accounts[2]
             pda == find_program_address(<<VAULT_SEED, owner.key>>)
         IN IF ~is_owned_by(vault.key, SYSTEM_ID)
            THEN [err |-> InvalidAccountOwner, owner |-> NoAccount,
                  vault |-> NoAccount, bumps |-> <<0>>]
            ELSE IF lam[vault.key] = 0
            THEN [err |-> InvalidAccountData, owner |-> NoAccount,
                  vault |-> NoAccount, bumps |-> <<0>>]
            ELSE IF pda[1] # vault.key
            THEN [err |-> InvalidAccountOwner, owner |-> NoAccount,
                  vault |-> NoAccount, bumps |-> <<0>>]
            ELSE [err |-> OK, owner |-> owner, vault |-> vault, bumps |-> <<pda[2]>>]

\* variant: the vault-not-empty check (Check 3) inverted
WithdrawAccounts_inverted_empty_check(accounts, lam) ==
    IF Len(accounts) # 3
    THEN [err |-> NotEnoughAccountKeys, owner |-> NoAccount, vault |-> NoAccount,
          bumps |-> <<0>>]
    ELSE LET owner == accounts[1]
             vault == accounts[2]
             pda == find_program_address(<<VAULT_SEED, owner.key>>)
         IN IF ~owner.is_signer
            THEN [err |-> InvalidAccountOwner, owner |-> NoAccount,
                  vault |-> NoAccount, bumps |-> <<0>>]
            ELSE IF ~is_owned_by(vault.key, SYSTEM_ID)
            THEN [err |-> InvalidAccountOwner, owner |-> NoAccount,
                  vault |-> NoAccount, bumps |-> <<0>>]
            ELSE IF lam[vault.key] # 0
            THEN [err |-> InvalidAccountData, owner |-> NoAccount,
                  vault |-> NoAccount, bumps |-> <<0>>]
            ELSE IF pda[1] # vault.key
            THEN [err |-> InvalidAccountOwner, owner |-> NoAccount,
                  vault |-> NoAccount, bumps |-> <<0>>]
            ELSE [err |-> OK, owner |-> owner, vault |-> vault, bumps |-> <<pda[2]>>]

\* variant: the bump kept is the constant 255, not the one the derivation found
WithdrawAccounts_fixed_bump(accounts, lam) ==
    IF Len(accounts) # 3
    THEN [err |-> NotEnoughAccountKeys, owner |-> NoAccount, vault |-> NoAccount,
          bumps |-> <<0>>]
    ELSE LET owner == accounts[1]
             vault == accounts[2]
             pda == find_program_address(<<VAULT_SEED, owner.key>>)
         IN IF ~owner.is_signer
            THEN [err |-> InvalidAccountOwner, owner |-> NoAccount,
                  vault |-> NoAccount, bumps |-> <<0>>]
            ELSE IF ~is_owned_by(vault.key, SYSTEM_ID)
            THEN [err |-> InvalidAccountOwner, owner |-> NoAccount,
                  vault |-> NoAccount, bumps |-> <<0>>]
            ELSE IF lam[vault.key] = 0
            THEN [err |-> InvalidAccountData, owner |-> NoAccount,
                  vault |-> NoAccount, bumps |-> <<0>>]
            ELSE IF pda[1] # vault.key
            THEN [err |-> InvalidAccountOwner, owner |-> NoAccount,
                  vault |-> NoAccount, bumps |-> <<0>>]
            ELSE [err |-> OK, owner |-> owner, vault |-> vault, bumps |-> <<MaxBump>>]

\* WithdrawAccounts::try_from: exactly three accounts, then the four checks
\* in source order; the bump found by the derivation is kept.
WithdrawAccounts_try_from(accounts, lam) ==
    IF Len(accounts) # 3
    THEN [err |-> NotEnoughAccountKeys, owner |-> NoAccount, vault |-> NoAccount,
          bumps |-> <<0>>]
    ELSE LET owner == accounts[1]
             vault == accounts[2]
             pda == find_program_address(<<VAULT_SEED, owner.key>>)
         IN IF ~owner.is_signer
            THEN [err |-> InvalidAccountOwner, owner |-> NoAccount,
                  vault |-> NoAccount, bumps |-> <<0>>]
            ELSE IF ~is_owned_by(vault.key, SYSTEM_ID)
            THEN [err |-> InvalidAccountOwner, owner |-> NoAccount,
                  vault |-> NoAccount, bumps |-> <<0>>]
            ELSE IF lam[vault.key] = 0
            THEN [err |-> InvalidAccountData, owner |-> NoAccount,
                  vault |-> NoAccount, bumps |-> <<0>>]
            ELSE IF pda[1] # vault.key
            THEN [err |-> InvalidAccountOwner, owner |-> NoAccount,
                  vault |-> NoAccount, bumps |-> <<0>>]
            ELSE [err |-> OK, owner |-> owner, vault |-> vault, bumps |-> <<pda[2]>>]

\* Withdraw::try_from: the accounts only
Withdraw_try_from(accounts, lam) == WithdrawAccounts_try_from(accounts, lam)

\* variant: one lamport is left in the vault
Withdraw_process_keep_one(self, lam) ==
    Transfer_invoke_signed(lam, self.vault, self.owner, lam[self.vault.key] - 1,
                           <<VAULT_SEED, self.owner.key, self.bumps[1]>>)

\* the seeds of the signer Withdraw::process presents: "vault", the owner's
\* key, the bump kept by try_from
Withdraw_seeds(self) == <<VAULT_SEED, self.owner.key, self.bumps[1]>>

\* variant: the owner is credited directly, the vault is not debited
Withdraw_process_credit_only(self, lam) ==
    [err |-> OK,
     lamports |-> [lam EXCEPT ![self.owner.key] = @ + lam[self.vault.key]]]

\* Withdraw::process: Transfer { from: vault, to: owner, lamports:
\* vault.lamports() }, signed with the seeds "vault", owner key, bump
Withdraw_process(self, lam) ==
    LET seeds == Withdraw_seeds(self)
    IN Transfer_invoke_signed(lam, self.vault, self.owner, lam[self.vault.key],
                              seeds)

\* One Withdraw instruction: Withdraw::try_from(accounts)?.process()
Withdraw_run(accounts, lam) ==
    LET self == Withdraw_try_from(accounts, lam)
    IN IF self.err # OK THEN [err |-> self.err, lamports |-> lam]
       ELSE Withdraw_process(self, lam)

(***************************************************************************)
(* Requests the runtime can hand the program.                              *)
(***************************************************************************)
OwnerEntries == {[key |-> k, is_signer |-> s] : k \in Owners, s \in BOOLEAN}
VaultEntries == {[key |-> k, is_signer |-> FALSE] : k \in Vaults \cup {Foreign}}
SysEntry == [key |-> SysAccount, is_signer |-> FALSE]
ForeignEntry == [key |-> Foreign, is_signer |-> FALSE]
\* what may follow owner and vault in the account slice
Trailing == {<<>>, <<SysEntry>>, <<ForeignEntry>>, <<SysEntry, ForeignEntry>>}
\* The account slices: every owner/vault pair with the system program as
\* third account, every other shape (shorter, longer, another third
\* account) for the pairs whose owner signs, and the slices without a vault.
AccountLists ==
    {<<>>} \cup {<<o>> : o \in {e \in OwnerEntries : e.is_signer}}
    \cup {<<o, v, SysEntry>> : o \in OwnerEntries, v \in VaultEntries}
    \cup {<<o, v>> \o t : o \in {e \in OwnerEntries : e.is_signer},
                          v \in VaultEntries, t \in Trailing}

\* n as len little-endian bytes (what a client writes)
RECURSIVE to_le_bytes(_, _)
to_le_bytes(n, len) ==
    IF len = 0 THEN <<>> ELSE <<n % Byte>> \o to_le_bytes(n \div Byte, len - 1)

Payloads ==
    {to_le_bytes(n, U64Size) : n \in 0..MaxAmount}
    \cup {to_le_bytes(Byte, U64Size), to_le_bytes(1, U64Size - 1),
          to_le_bytes(1, U64Size + 1)}

(***************************************************************************)
(* State.                                                                  *)
(*   lamports  the ledger: the balance of every account                    *)
(*   last      the instruction run last: its kind, inputs, result and the  *)
(*             ledger it started from                                      *)
(*   prev      the instruction run before it, when that was a successful   *)
(*             deposit (else NoReq)                                        *)
(***************************************************************************)
VARIABLES lamports, last, prev
vars == <<lamports, last, prev>>

InitLamports ==
    [k \in Keys |-> IF k \in Owners THEN InitBal ELSE IF k \in Vaults THEN 0 ELSE 1]

NoReq == [kind |-> "none", accounts |-> <<>>, data |-> <<>>, res |-> "none",
          pre |-> InitLamports]

Init ==
    /\ lamports = InitLamports
    /\ last = NoReq
    /\ prev = NoReq

Remember == IF last.kind = "deposit" /\ last.res = OK THEN last ELSE NoReq

\* the dispatcher routes discriminator 0 to Deposit
Deposit(accounts, data) ==
    LET r == Deposit_run(data, accounts, lamports)
    IN /\ lamports' = r.lamports
       /\ last' = [kind |-> "deposit", accounts |-> accounts, data |-> data,
                   res |-> r.err, pre |-> lamports]
       /\ prev' = Remember

\* the dispatcher routes discriminator 1 to Withdraw
Withdraw(accounts) ==
    LET r == Withdraw_run(accounts, lamports)
    IN /\ lamports' = r.lamports
       /\ last' = [kind |-> "withdraw", accounts |-> accounts, data |-> <<>>,
                   res |-> r.err, pre |-> lamports]
       /\ prev' = Remember

Next ==
    \/ \E a \in AccountLists, d \in Payloads : Deposit(a, d)
    \/ \E a \in AccountLists : Withdraw(a)

Spec == Init /\ [][Next]_vars

(***************************************************************************)
(* The error each check returns, under the name the specification gives    *)
(* that check's failure.                                                   *)
(***************************************************************************)
MissingAccounts == NotEnoughAccountKeys
Unauthorized == InvalidAccountOwner
InvalidVaultOwner == InvalidAccountOwner
VaultNotEmpty == InvalidAccountData
VaultEmpty == InvalidAccountData
VaultAddressMismatch == InvalidAccountOwner
MalformedInstructionData == InvalidInstructionData
ZeroAmount == InvalidInstructionData

ValidationErrors ==
    {MissingAccounts, Unauthorized, InvalidVaultOwner, VaultNotEmpty, VaultEmpty,
     VaultAddressMismatch, MalformedInstructionData, ZeroAmount}

(***************************************************************************)
(* Vocabulary of the properties: the last request and its preconditions.   *)
(***************************************************************************)
\* derive("vault", owner): the address of the owner's vault
Derive(k) == find_program_address(<<VAULT_SEED, k>>)[1]

\* the request carries owner and vault in the three-account slice the
\* handlers destructure
HasShape(r) == Len(r.accounts) = 3
OwnerOf(r) == r.accounts[1]
VaultOf(r) == r.accounts[2]
NamesVault(r, v) == Len(r.accounts) >= 2 /\ r.accounts[2].key = v
AmountOf(r) == u64_from_le_bytes(r.data)

SignerOk(r) == OwnerOf(r).is_signer
AuthorityOk(r) == is_owned_by(VaultOf(r).key, SYSTEM_ID)
VaultIsEmpty(r) == r.pre[VaultOf(r).key] = 0
AddressOk(r) == VaultOf(r).key = Derive(OwnerOf(r).key)
LengthOk(r) == Len(r.data) = U64Size
AmountOk(r) == LengthOk(r) => AmountOf(r) > 0

IsDeposit(r) == r.kind = "deposit"
IsWithdraw(r) == r.kind = "withdraw"

DepositPreconditions(r) ==
    /\ SignerOk(r) /\ AuthorityOk(r) /\ VaultIsEmpty(r) /\ AddressOk(r)
    /\ LengthOk(r) /\ AmountOk(r)

WithdrawPreconditions(r) ==
    SignerOk(r) /\ AuthorityOk(r) /\ ~VaultIsEmpty(r) /\ AddressOk(r)

\* every balance but those of the keys in S is as before the last request
OthersUnchanged(S) == \A k \in Keys \ S : lamports[k] = last.pre[k]

(***************************************************************************)
(* C1.  A deposit succeeds if and only if the owner signs, the vault is    *)
(* system-owned, the vault's balance is 0, the vault address is            *)
(* derive("vault", owner), the payload has 8 bytes and the amount is > 0.  *)
(* As stated this fails: a deposit meeting all six is still rejected when  *)
(* the transfer fails, the owner holding less than the amount.             *)
(***************************************************************************)
C1_Original ==
    (IsDeposit(last) /\ HasShape(last))
        => (last.res = OK <=> DepositPreconditions(last))

\* C1 as amended: a deposit succeeds if and only if the six preconditions
\* hold and the owner's balance is at least the amount, so that the
\* transfer succeeds.
C1_Amended ==
    (IsDeposit(last) /\ HasShape(last))
        => (last.res = OK <=>
              /\ DepositPreconditions(last)
              /\ last.pre[OwnerOf(last).key] >= AmountOf(last))

\* a deposit meeting the six preconditions and funded by the owner succeeded
C1_Witness ==
    /\ IsDeposit(last) /\ HasShape(last) /\ DepositPreconditions(last)
    /\ last.res = OK

(***************************************************************************)
(* C2.  A withdraw succeeds if and only if the owner signs, the vault is   *)
(* system-owned, the vault's balance is > 0 and the vault address is       *)
(* derive("vault", owner).                                                 *)
(***************************************************************************)
C2_WithdrawIff ==
    (IsWithdraw(last) /\ HasShape(last))
        => (last.res = OK <=> WithdrawPreconditions(last))

\* a withdraw meeting the four preconditions succeeded
C2_Witness ==
    /\ IsWithdraw(last) /\ HasShape(last) /\ WithdrawPreconditions(last)
    /\ last.res = OK

(***************************************************************************)
(* C3.  A successful withdraw moves the vault's whole balance to the owner *)
(* that signed: afterwards the vault holds 0, that owner holds what it     *)
(* held plus the vault's former balance, and no other balance changed.     *)
(***************************************************************************)
C3_WithdrawAll ==
    (IsWithdraw(last) /\ last.res = OK) =>
        LET o == OwnerOf(last).key
            v == VaultOf(last).key
        IN /\ OwnerOf(last).is_signer
           /\ lamports[v] = 0
           /\ lamports[o] = last.pre[o] + last.pre[v]
           /\ OthersUnchanged({o, v})

\* a withdraw of a vault holding more than one lamport succeeded
C3_Witness ==
    /\ IsWithdraw(last) /\ last.res = OK
    /\ last.pre[VaultOf(last).key] > 1

(***************************************************************************)
(* C4.  A successful deposit moves exactly the decoded amount from the     *)
(* signing owner to the vault: the vault held 0 and now holds the amount,  *)
(* the owner holds the amount less, and no other balance changed.          *)
(***************************************************************************)
C4_DepositAmount ==
    (IsDeposit(last) /\ last.res = OK) =>
        LET o == OwnerOf(last).key
            v == VaultOf(last).key
        IN /\ OwnerOf(last).is_signer
           /\ last.pre[v] = 0
           /\ lamports[v] = AmountOf(last)
           /\ lamports[o] = last.pre[o] - AmountOf(last)
           /\ OthersUnchanged({o, v})

\* a deposit of less than the owner's balance succeeded
C4_Witness ==
    /\ IsDeposit(last) /\ last.res = OK
    /\ AmountOf(last) < last.pre[OwnerOf(last).key]

(***************************************************************************)
(* C5.  No value moves on a failure path: after a deposit or withdraw      *)
(* rejected by a validation check every balance is as before the request.  *)
(***************************************************************************)
C5_NoMoveOnReject ==
    (last.kind # "none" /\ last.res \in ValidationErrors)
        => lamports = last.pre

\* a deposit whose accounts are valid was rejected for its payload
C5_Witness ==
    /\ IsDeposit(last) /\ HasShape(last)
    /\ SignerOk(last) /\ AuthorityOk(last) /\ VaultIsEmpty(last) /\ AddressOk(last)
    /\ Len(last.data) > U64Size
    /\ last.res = MalformedInstructionData

(***************************************************************************)
(* C6.  With exactly one precondition of a deposit false, the error is the *)
(* one specific to that precondition, and it tells that precondition from  *)
(* every other: missing signer -> Unauthorized, wrong vault authority ->   *)
(* InvalidVaultOwner, vault not empty -> VaultNotEmpty, vault address not  *)
(* the derived one -> VaultAddressMismatch, payload length not 8 ->        *)
(* MalformedInstructionData, amount 0 -> ZeroAmount.                       *)
(* The code returns InvalidAccountOwner for three of them and              *)
(* InvalidInstructionData for two.                                         *)
(***************************************************************************)
DepositChecks(r) ==
    <<SignerOk(r), AuthorityOk(r), VaultIsEmpty(r), AddressOk(r), LengthOk(r),
      AmountOk(r)>>
DepositErrors ==
    <<Unauthorized, InvalidVaultOwner, VaultNotEmpty, VaultAddressMismatch,
      MalformedInstructionData, ZeroAmount>>
\* check i is the only one of the request that fails
OnlyFails(r, i) ==
    \A j \in 1..Len(DepositErrors) : DepositChecks(r)[j] <=> (j # i)

C6_SpecificErrors ==
    \A i \in 1..Len(DepositErrors) :
        (IsDeposit(last) /\ HasShape(last) /\ OnlyFails(last, i)) =>
            /\ last.res = DepositErrors[i]
            /\ \A j \in 1..Len(DepositErrors) :
                   j # i => last.res # DepositErrors[j]

(***************************************************************************)
(* C7.  The balance of an owner's vault changes only from 0 to a positive  *)
(* balance by a successful deposit of an amount > 0 and from a positive    *)
(* balance to 0 by a successful withdraw; a deposit into a funded vault    *)
(* and a withdraw from an empty vault are rejected.                        *)
(***************************************************************************)
C7_VaultStateMachine ==
    \A v \in Vaults :
        /\ lamports[v] # last.pre[v] =>
              \/ /\ last.pre[v] = 0 /\ lamports[v] > 0
                 /\ IsDeposit(last) /\ last.res = OK /\ NamesVault(last, v)
                 /\ AmountOf(last) > 0
              \/ /\ last.pre[v] > 0 /\ lamports[v] = 0
                 /\ IsWithdraw(last) /\ last.res = OK /\ NamesVault(last, v)
        /\ (IsDeposit(last) /\ NamesVault(last, v) /\ last.pre[v] > 0)
              => last.res # OK
        /\ (IsWithdraw(last) /\ NamesVault(last, v) /\ last.pre[v] = 0)
              => last.res # OK

\* an otherwise valid deposit into a funded vault, affordable to the owner,
\* was rejected
C7_Witness ==
    /\ IsDeposit(last) /\ HasShape(last)
    /\ SignerOk(last) /\ AddressOk(last) /\ LengthOk(last) /\ AmountOf(last) > 0
    /\ last.pre[VaultOf(last).key] > 0
    /\ last.pre[OwnerOf(last).key] >= AmountOf(last)
    /\ last.res # OK

(***************************************************************************)
(* C8.  Round trip: a successful deposit by owner O followed directly by   *)
(* a withdraw signed by O on the same vault succeeds, leaves the vault at  *)
(* 0 and O's balance at its value before the deposit.                      *)
(***************************************************************************)
C8_RoundTrip ==
    (/\ IsDeposit(prev) /\ prev.res = OK
     /\ IsWithdraw(last) /\ HasShape(last)
     /\ OwnerOf(last) = OwnerOf(prev)
     /\ VaultOf(last).key = VaultOf(prev).key)
        => /\ last.res = OK
           /\ lamports[VaultOf(prev).key] = 0
           /\ lamports[OwnerOf(prev).key] = prev.pre[OwnerOf(prev).key]

\* a withdraw ran directly after the same owner's successful deposit
C8_Witness ==
    /\ IsDeposit(prev) /\ prev.res = OK
    /\ IsWithdraw(last) /\ HasShape(last)
    /\ OwnerOf(last) = OwnerOf(prev)
    /\ VaultOf(last).key = VaultOf(prev).key
    /\ lamports[OwnerOf(prev).key] = InitBal

(***************************************************************************)
(* C9.  Deposit twice in succession on the same vault, both otherwise      *)
(* valid: the first succeeds, the second fails with VaultNotEmpty and the  *)
(* vault keeps the first deposit's amount.                                 *)
(***************************************************************************)
C9_SecondDepositRejected ==
    (/\ IsDeposit(prev) /\ prev.res = OK
     /\ IsDeposit(last) /\ HasShape(last)
     /\ OwnerOf(last) = OwnerOf(prev)
     /\ VaultOf(last).key = VaultOf(prev).key
     /\ LengthOk(last) /\ AmountOf(last) > 0)
        => /\ last.res = VaultNotEmpty
           /\ lamports[VaultOf(prev).key] = AmountOf(prev)

\* a second valid deposit, affordable to the owner, ran directly after the
\* first
C9_Witness ==
    /\ IsDeposit(prev) /\ prev.res = OK
    /\ IsDeposit(last) /\ HasShape(last)
    /\ OwnerOf(last) = OwnerOf(prev)
    /\ VaultOf(last).key = VaultOf(prev).key
    /\ LengthOk(last) /\ AmountOf(last) > 0
    /\ last.pre[OwnerOf(last).key] >= AmountOf(last)

(***************************************************************************)
(* C10.  When owner O1 signs a request naming the vault derived for        *)
(* another owner O2, deposit and withdraw are both rejected with           *)
(* VaultAddressMismatch, whatever the balance of O2's vault, and no value  *)
(* moves.  As stated this fails: the balance check precedes the address    *)
(* check, so a withdraw naming an empty vault fails with VaultEmpty and a  *)
(* deposit naming a funded vault with VaultNotEmpty.                       *)
(***************************************************************************)
\* the last request is signed by one owner and names another owner's vault
CrossOwner(r) ==
    /\ r.kind # "none" /\ HasShape(r) /\ SignerOk(r)
    /\ \E o2 \in Owners \ {OwnerOf(r).key} : VaultOf(r).key = Derive(o2)

C10_Original ==
    CrossOwner(last) =>
        /\ last.res = VaultAddressMismatch
        /\ lamports = last.pre

\* C10 as amended: both are rejected and no value moves; the error is
\* VaultAddressMismatch when the named vault passes the balance check that
\* comes first (empty for a deposit, funded for a withdraw), and otherwise
\* that check's error, VaultNotEmpty for a deposit, VaultEmpty for a
\* withdraw.
C10_Amended ==
    CrossOwner(last) =>
        /\ lamports = last.pre
        /\ last.res # OK
        /\ IsDeposit(last) =>
              last.res = IF VaultIsEmpty(last) THEN VaultAddressMismatch
                         ELSE VaultNotEmpty
        /\ IsWithdraw(last) =>
              last.res = IF ~VaultIsEmpty(last) THEN VaultAddressMismatch
                         ELSE VaultEmpty

\* an owner's withdraw naming another owner's funded vault was rejected
C10_Witness ==
    /\ CrossOwner(last) /\ IsWithdraw(last)
    /\ ~VaultIsEmpty(last)
    /\ last.res = VaultAddressMismatch

(***************************************************************************)
(* C11.  Owner isolation: the balance of the vault derived for owner O     *)
(* changes only in a deposit or withdraw in which O itself is the signing  *)
(* owner, and value leaving O's vault is credited to O and to no one else. *)
(***************************************************************************)
C11_OwnerIsolation ==
    \A o \in Owners :
        LET v == Derive(o)
        IN lamports[v] # last.pre[v] =>
              /\ last.kind \in {"deposit", "withdraw"}
              /\ Len(last.accounts) >= 2
              /\ OwnerOf(last).key = o
              /\ OwnerOf(last).is_signer
              /\ lamports[v] < last.pre[v] =>
                    /\ lamports[o] = last.pre[o] + (last.pre[v] - lamports[v])
                    /\ OthersUnchanged({o, v})

\* another owner signed an affordable, well-formed deposit naming an empty
\* vault that is not its own, while the signer's own vault is funded
C11_Witness ==
       /\ CrossOwner(last) /\ IsDeposit(last) /\ VaultIsEmpty(last)
       /\ LengthOk(last) /\ AmountOf(last) > 0
       /\ last.pre[OwnerOf(last).key] >= AmountOf(last)
       /\ lamports[VaultOf(last).key] = 0
       /\ \E o \in Owners : lamports[Derive(o)] > 0

(***************************************************************************)
(* C12.  Both handlers trust the same single vault address per owner: the  *)
(* only vault a deposit signed by O is accepted for and the only vault a   *)
(* withdraw signed by O is accepted for is derive("vault", O), on every    *)
(* call in every state.                                                    *)
(***************************************************************************)
\* the vault keys for which the handler's account validation accepts a
\* request signed by owner o in the current ledger
DepositAccepts(o) ==
    {e.key : e \in {x \in VaultEntries :
        DepositAccounts_try_from(<<[key |-> o, is_signer |-> TRUE], x, SysEntry>>,
                                 lamports).err = OK}}
WithdrawAccepts(o) ==
    {e.key : e \in {x \in VaultEntries :
        WithdrawAccounts_try_from(<<[key |-> o, is_signer |-> TRUE], x, SysEntry>>,
                                  lamports).err = OK}}

C12_OneVaultPerOwner ==
    /\ \A o \in Owners :
          /\ DepositAccepts(o) \subseteq {Derive(o)}
          /\ WithdrawAccepts(o) \subseteq {Derive(o)}
          /\ DepositAccepts(o) \cup WithdrawAccepts(o) = {Derive(o)}
          /\ Derive(o) \in Vaults
    /\ \A o1, o2 \in Owners : Derive(o1) = Derive(o2) => o1 = o2
    /\ (last.kind # "none" /\ last.res = OK)
          => VaultOf(last).key = Derive(OwnerOf(last).key)

\* the owner whose derivation skips a bump withdrew, directly after its
\* deposit, from the vault the deposit was accepted for
C12_Witness ==
    /\ IsDeposit(prev) /\ prev.res = OK /\ OwnerOf(prev).key = "O2"
    /\ IsWithdraw(last) /\ last.res = OK /\ OwnerOf(last).key = "O2"
    /\ VaultOf(last).key = VaultOf(prev).key

(***************************************************************************)
(* C13.  The deposit payload is accepted exactly when it has 8 bytes and   *)
(* its little-endian value is non-zero: any other length, shorter or       *)
(* longer, is rejected with MalformedInstructionData, eight zero bytes     *)
(* with ZeroAmount, and the amount deposited for an accepted payload is    *)
(* its little-endian value.                                                *)
(***************************************************************************)
\* the account checks of a deposit all pass, so the payload decides
AccountsPass(r) ==
    HasShape(r) /\ SignerOk(r) /\ AuthorityOk(r) /\ VaultIsEmpty(r) /\ AddressOk(r)
AllZero(d) == \A i \in 1..Len(d) : d[i] = 0
PayloadErrors == {MalformedInstructionData, ZeroAmount}

C13_PayloadCodec ==
    (IsDeposit(last) /\ AccountsPass(last)) =>
        /\ Len(last.data) # U64Size => last.res = MalformedInstructionData
        /\ (Len(last.data) = U64Size /\ AllZero(last.data))
              => last.res = ZeroAmount
        /\ last.res \notin PayloadErrors
              <=> (Len(last.data) = U64Size /\ ~AllZero(last.data))
        /\ last.res = OK =>
              \E n \in 1..Byte :
                  /\ to_le_bytes(n, U64Size) = last.data
                  /\ lamports[VaultOf(last).key] = n

\* a payload one byte short met accounts that all pass
C13_Witness ==
    /\ IsDeposit(last) /\ AccountsPass(last)
    /\ Len(last.data) = U64Size - 1
    /\ last.res = MalformedInstructionData

(***************************************************************************)
(* C14.  Both handlers take owner and vault from the first two entries of  *)
(* the account list and ignore every entry after them: a list with fewer   *)
(* than two entries fails with MissingAccounts, and for a list that has    *)
(* owner and vault neither the number nor the contents of the trailing     *)
(* entries change the outcome.                                             *)
(* The code accepts a list of exactly three entries only.                  *)
(***************************************************************************)
\* the outcome of the last request had its account list been `accounts`
RunOn(r, accounts) ==
    IF IsDeposit(r) THEN Deposit_run(r.data, accounts, r.pre)
    ELSE Withdraw_run(accounts, r.pre)

C14_TrailingIgnored ==
    last.kind # "none" =>
        /\ Len(last.accounts) < 2 => last.res = MissingAccounts
        /\ Len(last.accounts) >= 2 =>
              \A t \in Trailing :
                  RunOn(last, <<OwnerOf(last), VaultOf(last)>> \o t)
                      = [err |-> last.res, lamports |-> lamports]

(***************************************************************************)
(* C15.  Fail-fast ordering: the error reported is that of the earliest    *)
(* failing check in the order account count, owner signer, vault           *)
(* authority, vault balance, vault address and, for a deposit, payload     *)
(* length then amount; a deposit with an invalid account list and an       *)
(* invalid payload reports the account error, never the payload error.     *)
(***************************************************************************)
NoFailure == "none"
\* the error of the first check, in the stated order, the request fails
FirstFailure(r) ==
    IF Len(r.accounts) < 2 THEN MissingAccounts
    ELSE IF ~SignerOk(r) THEN Unauthorized
    ELSE IF ~AuthorityOk(r) THEN InvalidVaultOwner
    ELSE IF IsDeposit(r) /\ ~VaultIsEmpty(r) THEN VaultNotEmpty
    ELSE IF IsWithdraw(r) /\ VaultIsEmpty(r) THEN VaultEmpty
    ELSE IF ~AddressOk(r) THEN VaultAddressMismatch
    ELSE IF IsDeposit(r) /\ ~LengthOk(r) THEN MalformedInstructionData
    ELSE IF IsDeposit(r) /\ AmountOf(r) = 0 THEN ZeroAmount
    ELSE NoFailure
AccountErrors ==
    {MissingAccounts, Unauthorized, InvalidVaultOwner, VaultNotEmpty,
     VaultAddressMismatch}

C15_FailFast ==
    /\ (last.kind # "none" /\ (HasShape(last) \/ Len(last.accounts) < 2)) =>
          IF FirstFailure(last) # NoFailure
          THEN last.res = FirstFailure(last)
          ELSE last.res \notin ValidationErrors
    /\ (/\ IsDeposit(last)
        /\ ~(LengthOk(last) /\ AmountOf(last) > 0)
        /\ ~AccountsPass(last))
          => (last.res \in AccountErrors /\ last.res \notin PayloadErrors)

\* a signed deposit naming another owner's funded vault, with a payload of
\* the wrong length, reported the balance check's error
C15_Witness ==
    /\ IsDeposit(last) /\ HasShape(last) /\ SignerOk(last) /\ AuthorityOk(last)
    /\ ~VaultIsEmpty(last) /\ ~AddressOk(last) /\ ~LengthOk(last)
    /\ last.res = VaultNotEmpty

(***************************************************************************)
(* C16.  When every validation check passes and the external transfer      *)
(* fails, as for a deposit of more than the owner holds, the handler       *)
(* returns the transfer's failure, not success, and no balance changes.    *)
(***************************************************************************)
TransferErrors == {MissingRequiredSignature, InsufficientFunds, InvalidArgument}
\* every validation check of the request passes
Validated(r) ==
    \/ IsDeposit(r) /\ AccountsPass(r) /\ LengthOk(r) /\ AmountOf(r) > 0
    \/ IsWithdraw(r) /\ HasShape(r) /\ WithdrawPreconditions(r)

C16_TransferFailure ==
    /\ (IsDeposit(last) /\ Validated(last)
        /\ last.pre[OwnerOf(last).key] < AmountOf(last))
          => (last.res = InsufficientFunds /\ lamports = last.pre)
    /\ (Validated(last) /\ last.res # OK)
          => (last.res \in TransferErrors /\ lamports = last.pre)

\* a validated deposit of more than the owner holds ended with the
\* transfer's error
C16_Witness ==
    /\ IsDeposit(last) /\ Validated(last)
    /\ last.pre[OwnerOf(last).key] < AmountOf(last)
    /\ last.res = InsufficientFunds

(***************************************************************************)
(* C17.  For every withdraw that passes validation the signer presented to *)
(* the transfer has exactly the seeds "vault", the signing owner's key and *)
(* the bump the validation's derivation returned; these derive the address *)
(* of the vault the transfer takes from, and the signature never fails.    *)
(***************************************************************************)
C17_SigningProof ==
    (IsWithdraw(last) /\ HasShape(last) /\ WithdrawPreconditions(last)) =>
        LET self == Withdraw_try_from(last.accounts, last.pre)
            found == find_program_address(<<VAULT_SEED, OwnerOf(last).key>>)
        IN /\ self.err = OK
           /\ self.vault = VaultOf(last)
           /\ Withdraw_seeds(self) = <<VAULT_SEED, OwnerOf(last).key, found[2]>>
           /\ create_program_address(Withdraw_seeds(self)) = self.vault.key
           /\ last.res # MissingRequiredSignature
           /\ last.res = OK

\* a withdraw passed validation for the owner whose bump is not the first
\* one tried
C17_Witness ==
    /\ IsWithdraw(last) /\ HasShape(last) /\ WithdrawPreconditions(last)
    /\ find_program_address(<<VAULT_SEED, OwnerOf(last).key>>)[2] < MaxBump

(***************************************************************************)
(* C18.  Conservation: over any sequence of deposits and withdraws,        *)
(* successful or rejected, the sum of all balances stays what it was.      *)
(***************************************************************************)
RECURSIVE SumOver(_, _)
SumOver(S, lam) ==
    IF S = {} THEN 0
    ELSE LET k == CHOOSE x \in S : TRUE
         IN lam[k] + SumOver(S \ {k}, lam)
Total(lam) == SumOver(Keys, lam)

C18_Conservation ==
    /\ Total(lamports) = Total(InitLamports)
    /\ Total(lamports) = Total(last.pre)

\* a deposit succeeded while the other vault was funded
C18_Witness ==
    /\ IsDeposit(last) /\ last.res = OK
    /\ \A v \in Vaults : lamports[v] > 0

(***************************************************************************)
(* C19.  Funds are never stuck: whenever the vault derived for owner O is  *)
(* funded, the withdraw signed by O that names it succeeds and empties it; *)
(* so if O's withdraw is not postponed for ever, a funded vault is         *)
(* eventually empty, whatever the other owners request.                    *)
(***************************************************************************)
\* the vault derived for every owner
OwnerVault == [o \in Owners |-> Derive(o)]
\* the account list of owner o's own withdraw
OwnAccounts(o) ==
    <<[key |-> o, is_signer |-> TRUE], [key |-> OwnerVault[o], is_signer |-> FALSE],
      SysEntry>>
OwnWithdraw(o) == Withdraw(OwnAccounts(o))

\* The requests of the fair specification: every owner signing for every
\* vault, one unsigned request and one naming the foreign account, in the
\* three-account slice, with the eight-byte payloads of the amounts 0, 1
\* and the owner's whole initial balance.
LiveAccountLists ==
    {<<[key |-> o, is_signer |-> TRUE], [key |-> v, is_signer |-> FALSE], SysEntry>> :
        o \in Owners, v \in Vaults}
    \cup {<<[key |-> "O1", is_signer |-> FALSE],
             [key |-> OwnerVault["O1"], is_signer |-> FALSE], SysEntry>>,
           <<[key |-> "O1", is_signer |-> TRUE], ForeignEntry, SysEntry>>}
LivePayloads == {to_le_bytes(n, U64Size) : n \in {0, 1, InitBal}}
LiveNext ==
    \/ \E a \in LiveAccountLists, d \in LivePayloads : Deposit(a, d)
    \/ \E a \in LiveAccountLists : Withdraw(a)

\* O's withdraw is taken if it stays possible
FairSpec ==
    Init /\ [][LiveNext]_vars /\ \A o \in Owners : WF_vars(OwnWithdraw(o))

Funded(o) == lamports[OwnerVault[o]] > 0
WithdrawWouldSucceed(o) ==
    LET r == Withdraw_run(OwnAccounts(o), lamports)
    IN /\ r.err = OK
       /\ r.lamports[OwnerVault[o]] = 0
       /\ r.lamports[o] = lamports[o] + lamports[OwnerVault[o]]

C19_NeverStuck ==
    /\ [](\A o \in Owners : Funded(o) => WithdrawWouldSucceed(o))
    /\ \A o \in Owners : Funded(o) ~> ~Funded(o)

\* an owner's withdraw emptied its vault while both vaults were funded
C19_Witness ==
    /\ IsWithdraw(last) /\ last.res = OK
    /\ \A v \in Vaults : last.pre[v] > 0
    /\ lamports[VaultOf(last).key] = 0

====
